---- MODULE Spec2Model ----
(***************************************************************************)
(* Stock trading journal: the role resolver hook (useUserRole), the        *)
(* trading record repository behind row level security, the dashboard's    *)
(* locally held record list and the statistics computed from it.           *)
(*                                                                         *)
(* Money is counted in hundredths (price 150 is 1.50), so that the sums    *)
(* of the aggregator are integer sums.  An optional value (a nullable      *)
(* column, a text input that may be empty) is a sequence of length at      *)
(* most one: <<>> is null / the empty input, <<v>> is the value v.         *)
(***************************************************************************)
EXTENDS Integers, Sequences, FiniteSets, TLC

\* ------------------------------------------------------------------ bounds
MaxLookups == 3
AggMaxLen == 2
MaxRecords == 2
MaxClock == 3
MaxInflight == 2
MaxAdminCalls == 2

\* --------------------------------------------------------------- identities
UserIds == {"u1", "u2"}
NoUser == "none"

VARIABLES
    user,          \* useAuth().user: NoUser or a user id
    user_roles,    \* the user_roles table: user id -> "norow" | "admin" | "user"
    role,          \* useUserRole: useState<UserRole>(null)
    roleLoading,   \* useUserRole: useState(true)
    effectPending, \* a render with a changed `user` whose effect has not run yet
    lookups,       \* invocations of fetchUserRole suspended at the await
    nLookups,      \* number of lookups started so far (bounded by MaxLookups)
    records,       \* TradingDashboard: useState<TradingRecord[]>([])
    loading,       \* TradingDashboard: useState(true)
    showForm,      \* TradingDashboard: useState(false)
    editingRecord, \* TradingDashboard: useState<TradingRecord | null>(null)
    formLoading,   \* TradingRecordForm: useState(false)
    trading_records, \* the trading_records table, a set of rows
    nextId,        \* ids handed out so far by gen_random_uuid(), plus one
    now,           \* the store's clock, now()
    requests,      \* store calls in flight: slot -> request or Idle
    toast,         \* the notification raised last ("none" before the first)
    activeTab,     \* TradingDashboard: useState('trading')
    profiles,      \* the profiles table, a set of rows
    users,         \* AdminDashboard: useState<User[]>([])
    stats,         \* AdminDashboard: useState<SystemStats>({0, 0, 0, 0})
    adminLoading,  \* AdminDashboard: useState(true)
    adminCalls,    \* AdminDashboard's store calls in flight
    authLoading,   \* AuthPage: useState(false)
    authCall       \* AuthPage's signIn / signUp call in flight

roleVars == <<user, user_roles, role, roleLoading, effectPending, lookups, nLookups>>

dashVars == <<records, loading, showForm, editingRecord, formLoading, toast>>

adminVars == <<activeTab, profiles, users, stats, adminLoading, adminCalls>>

storeVars == <<trading_records, nextId, now>>

authVars == <<authLoading, authCall>>
vars == <<roleVars, dashVars, storeVars, requests, adminVars, authVars>>

\* ---------------------------------------------------------------- profiles
\* the rows handle_new_user has inserted, one per identity; display_name and
\* email are nullable
ProfileRows ==
    {[id |-> 1, user_id |-> "u1", display_name |-> <<"n1">>, email |-> <<"u1@x">>,
      created_at |-> 0],
     [id |-> 2, user_id |-> "u2", display_name |-> <<>>, email |-> <<>>,
      created_at |-> 0]}

ZeroStats == [totalUsers |-> 0, totalRecords |-> 0, adminUsers |-> 0, activeUsers |-> 0]

AdminSlots == 1..MaxAdminCalls

NoCall == [kind |-> "idle"]

\* AdminDashboard as constructed, not mounted; the dashboard on its first tab
AdminInitial ==
    /\ activeTab = "trading"
    /\ profiles = ProfileRows
    /\ users = <<>>
    /\ stats = ZeroStats
    /\ adminLoading = TRUE
    /\ adminCalls = [c \in AdminSlots |-> NoCall]

\* no signIn / signUp call
NoAuthCall == [kind |-> "idle", phase |-> "none"]

\* AuthPage as constructed
AuthInitial ==
    /\ authLoading = FALSE
    /\ authCall = NoAuthCall

\* ============================================================ Role Resolver
Roles == {"admin", "user"}

\* what the awaited query can deliver: a thrown exception, an error result,
\* or data (no row, or the row's role)
RowOf(table, uid) == table[uid]

LookupOutcomes(table, uid) == {"throw", "error", RowOf(table, uid)}

\* a resolver that fails open: an error result is taken for admin
ResolveRole_FailOpen(res) ==
    IF res = "throw" THEN "user"
    ELSE IF res = "error" THEN "admin"
    ELSE IF res = "norow" THEN "user"
    ELSE res

\* the role fetchUserRole passes to setRole once the await returns
ResolveRole(res) ==
    IF res = "throw" THEN "user"
    ELSE IF res = "error" THEN "user"
    ELSE IF res = "norow" THEN "user"
    ELSE res

isAdmin == role = "admin"
isUser == role = "user"

\* the hook as constructed: useState(null), useState(true), effect not yet run
InitHook ==
    /\ role = "null"
    /\ roleLoading = TRUE
    /\ effectPending = TRUE
    /\ lookups = {}
    /\ nLookups = 0

InitRole ==
    /\ user \in UserIds \cup {NoUser}
    /\ user_roles \in [UserIds -> {"norow", "admin", "user"}]
    /\ InitHook
    /\ records = <<>>
    /\ loading = TRUE
    /\ showForm = FALSE
    /\ editingRecord = <<>>
    /\ formLoading = FALSE
    /\ toast = "none"
    /\ AdminInitial
    /\ AuthInitial
    /\ trading_records = {}
    /\ nextId = 1
    /\ now = 1
    /\ requests = <<>>

\* useAuth delivers another identity (sign-in, sign-out, session switch):
\* the hook re-renders and its effect is scheduled
AuthChange(u) ==
    /\ ~effectPending
    /\ u # user
    /\ nLookups < MaxLookups
    /\ user' = u
    /\ effectPending' = TRUE
    /\ UNCHANGED <<user_roles, role, roleLoading, lookups, nLookups>>
    /\ UNCHANGED <<dashVars, storeVars, requests, adminVars, authVars>>

\* the effect: the cleanup of the previous effect clears its `mounted`,
\* then fetchUserRole runs up to its first await
RunEffect ==
    /\ effectPending
    /\ effectPending' = FALSE
    /\ IF user = NoUser
       THEN /\ role' = "null"
            /\ roleLoading' = FALSE
            /\ lookups' = {[l EXCEPT !.mounted = FALSE] : l \in lookups}
            /\ UNCHANGED nLookups
       ELSE /\ lookups' = {[l EXCEPT !.mounted = FALSE] : l \in lookups}
                          \cup {[id |-> nLookups + 1, user |-> user,
                                 mounted |-> TRUE, res |-> "pending"]}
            /\ nLookups' = nLookups + 1
            /\ UNCHANGED <<role, roleLoading>>
    /\ UNCHANGED <<user, user_roles>>
    /\ UNCHANGED <<dashVars, storeVars, requests, adminVars, authVars>>

\* the store answers the query of lookup l
StoreRespond(l, res) ==
    /\ l \in lookups
    /\ l.res = "pending"
    /\ res \in LookupOutcomes(user_roles, l.user)
    /\ lookups' = (lookups \ {l}) \cup {[l EXCEPT !.res = res]}
    /\ UNCHANGED <<user, user_roles, role, roleLoading, effectPending, nLookups>>
    /\ UNCHANGED <<dashVars, storeVars, requests, adminVars, authVars>>

\* fetchUserRole resumes after the await: setRole in try/catch, then the
\* finally block, which alone looks at `mounted`
ResumeLookup(l) ==
    /\ l \in lookups
    /\ l.res # "pending"
    /\ role' = ResolveRole(l.res)
    /\ roleLoading' = IF l.mounted THEN FALSE ELSE roleLoading
    /\ lookups' = lookups \ {l}
    /\ UNCHANGED <<user, user_roles, effectPending, nLookups>>
    /\ UNCHANGED <<dashVars, storeVars, requests, adminVars, authVars>>

NextRole ==
    \/ \E u \in UserIds \cup {NoUser} : AuthChange(u)
    \/ RunEffect
    \/ \E l \in lookups : \E res \in LookupOutcomes(user_roles, l.user) :
           StoreRespond(l, res)
    \/ \E l \in lookups : ResumeLookup(l)

SpecRole == InitRole /\ [][NextRole]_vars

\* ==================================================== Statistics Aggregator
\* a nullable number: <<>> is null, <<v>> is v
None == <<>>
Some(v) == <<v>>

\* (x || 0)
OrZero(opt) == IF opt = None THEN 0 ELSE opt[1]

IsBuy(r) == r.transaction_type = "buy"
IsSell(r) == r.transaction_type = "sell"

\* .reduce((sum, r) => sum + (r.quantity * r.price), 0)
RECURSIVE ReduceAmount(_, _)
ReduceAmount(recs, sum) ==
    IF recs = <<>> THEN sum
    ELSE ReduceAmount(Tail(recs), sum + (Head(recs).quantity * Head(recs).price))

\* the tax left out of the fees
RECURSIVE ReduceFees_NoTax(_, _)
ReduceFees_NoTax(recs, sum) ==
    IF recs = <<>> THEN sum
    ELSE ReduceFees_NoTax(Tail(recs), sum + OrZero(Head(recs).commission))

\* .reduce((sum, r) => sum + (r.commission || 0) + (r.tax || 0), 0)
RECURSIVE ReduceFees(_, _)
ReduceFees(recs, sum) ==
    IF recs = <<>> THEN sum
    ELSE ReduceFees(Tail(recs),
                    sum + OrZero(Head(recs).commission) + OrZero(Head(recs).tax))

\* the buy filter left out
TotalInvestment_NoFilter(recs) == ReduceAmount(recs, 0)

TotalInvestment(recs) == ReduceAmount(SelectSeq(recs, IsBuy), 0)

TotalReturn(recs) == ReduceAmount(SelectSeq(recs, IsSell), 0)

\* the reduce started from a wrong initial value
TotalFees_Seeded(recs) == ReduceFees(recs, 1)

TotalFees(recs) == ReduceFees(recs, 0)

TotalPnL(recs) == TotalReturn(recs) - TotalInvestment(recs) - TotalFees(recs)

totalInvestment == TotalInvestment(records)
totalReturn == TotalReturn(records)
totalFees == TotalFees(records)
totalPnL == TotalPnL(records)
tradeCount == Len(records)

\* rows the store may hand to the dashboard, whoever wrote them
AggQuantities == {1, 3}
AggPrices == {250}
AggFees == {None, Some(5)}
AggTaxes == {None, Some(3)}
AggRows ==
    [transaction_type : {"buy", "sell"}, quantity : AggQuantities,
     price : AggPrices, commission : AggFees, tax : AggTaxes]

\* lists of such rows, the id of a row being its position
AggLists ==
    UNION {{[i \in 1..n |->
               [id |-> i, transaction_type |-> f[i].transaction_type,
                quantity |-> f[i].quantity, price |-> f[i].price,
                commission |-> f[i].commission, tax |-> f[i].tax]] :
            f \in [1..n -> AggRows]} : n \in 0..AggMaxLen}

\* the comparison inverted: only the deleted row is kept
FilterOut_Inverted(recs, id) == SelectSeq(recs, LAMBDA r : r.id = id)

\* records.filter(record => record.id !== id)
FilterOut(recs, id) == SelectSeq(recs, LAMBDA r : r.id # id)

\* the first fetch delivers whatever the store holds
AggFetch(data) ==
    /\ loading
    /\ records' = data
    /\ loading' = FALSE
    /\ UNCHANGED <<roleVars, adminVars, storeVars, requests, authVars>>
    /\ UNCHANGED <<showForm, editingRecord, formLoading, toast>>

\* a row leaves the local list
AggFilter(id) ==
    /\ \E i \in 1..Len(records) : records[i].id = id
    /\ records' = FilterOut(records, id)
    /\ toast' = "deleted"
    /\ UNCHANGED <<roleVars, adminVars, storeVars, requests, authVars>>
    /\ UNCHANGED <<loading, showForm, editingRecord, formLoading>>

NextAgg ==
    \/ \E data \in IF loading THEN AggLists ELSE {} : AggFetch(data)
    \/ \E id \in 1..AggMaxLen : AggFilter(id)

InitAgg ==
    /\ user \in UserIds
    /\ user_roles = [u \in UserIds |-> "norow"]
    /\ InitHook
    /\ records = <<>>
    /\ loading = TRUE
    /\ showForm = FALSE
    /\ editingRecord = <<>>
    /\ formLoading = FALSE
    /\ toast = "none"
    /\ AdminInitial
    /\ AuthInitial
    /\ trading_records = {}
    /\ nextId = 1
    /\ now = 1
    /\ requests = <<>>

SpecAgg == InitAgg /\ [][NextAgg]_vars

\* sum of quantity x price over the positions I of recs
RECURSIVE AmountOver(_, _)
AmountOver(I, recs) ==
    IF I = {} THEN 0
    ELSE LET i == CHOOSE j \in I : TRUE
         IN  recs[i].quantity * recs[i].price + AmountOver(I \ {i}, recs)

\* sum of commission + tax over the positions I of recs, null counting as 0
RECURSIVE FeesOver(_, _)
FeesOver(I, recs) ==
    IF I = {} THEN 0
    ELSE LET i == CHOOSE j \in I : TRUE
             c == IF recs[i].commission = None THEN 0 ELSE recs[i].commission[1]
             t == IF recs[i].tax = None THEN 0 ELSE recs[i].tax[1]
         IN  c + t + FeesOver(I \ {i}, recs)

\* C5: totalInvestment is the sum of quantity x price over exactly the buy
\* records and totalReturn the same sum over exactly the sell records.
C5_InvestmentAndReturn ==
    /\ totalInvestment =
           AmountOver({i \in 1..Len(records) : records[i].transaction_type = "buy"},
                      records)
    /\ totalReturn =
           AmountOver({i \in 1..Len(records) : records[i].transaction_type = "sell"},
                      records)

\* a list with a buy and a sell of different amounts
C5_Witness ==
    /\ Len(records) >= 2
    /\ totalInvestment > 0
    /\ totalReturn > 0
    /\ totalInvestment # totalReturn

\* C6: totalFees is the sum of commission + tax over all records, a null
\* commission or tax counting as 0, and the net profit/loss is
\* totalReturn - totalInvestment - totalFees.
C6_FeesAndNet ==
    /\ totalFees = FeesOver(1..Len(records), records)
    /\ totalPnL = totalReturn - totalInvestment - totalFees

\* a buy and a sell, one with a null commission, one with a tax
C6_Witness ==
    /\ \E i, j \in 1..Len(records) :
          /\ records[i].transaction_type = "buy"
          /\ records[j].transaction_type = "sell"
          /\ records[i].commission = None
          /\ records[j].tax # None
    /\ totalFees # 0

\* ================================================= Trading Record Repository
Idle == [kind |-> "idle"]

\* ---- the text of an <input type="number">: None when empty, else
\* Some([neg, int, frac]) for the decimal numeral -int.frac (frac in hundredths)
Numeral(neg, int, frac) == Some([neg |-> neg, int |-> int, frac |-> frac])

Abs(n) == IF n < 0 THEN -n ELSE n

\* parseFloat of a numeral, in hundredths
ParseFloat(text) ==
    (IF text[1].neg THEN -1 ELSE 1) * (text[1].int * 100 + text[1].frac)

\* parseInt of a numeral: the digits before the decimal point
ParseInt(text) == (IF text[1].neg THEN -1 ELSE 1) * text[1].int

\* quantity.toString() of an integer
IntToString(q) == Numeral(q < 0, Abs(q), 0)

\* price.toString() of a number given in hundredths
NumberToString(v) == Numeral(v < 0, Abs(v) \div 100, Abs(v) % 100)

\* ---- stock symbols are sequences of characters
UpperChar(c) == IF c = "a" THEN "A" ELSE IF c = "b" THEN "B" ELSE c

ToUpperCase(sym) == [i \in 1..Len(sym) |-> UpperChar(sym[i])]

\* ---- dates are day numbers; new Date(d).toISOString().split('T')[0]
MsPerDay == 86400000

DateToInput(d) == Some((d * MsPerDay) \div MsPerDay)

\* ---- the form, populated from the record being edited (useEffect)
FormFromRecord(record) ==
    [trade_date |-> DateToInput(record.trade_date),
     stock_symbol |-> record.stock_symbol,
     stock_name |-> IF record.stock_name = None THEN "" ELSE record.stock_name[1],
     transaction_type |-> record.transaction_type,
     quantity |-> IntToString(record.quantity),
     price |-> NumberToString(record.price),
     commission |-> IF record.commission = None THEN None
                    ELSE NumberToString(record.commission[1]),
     tax |-> IF record.tax = None THEN None ELSE NumberToString(record.tax[1]),
     notes |-> IF record.notes = None THEN "" ELSE record.notes[1]]

\* ---- constraint validation of the form's inputs; the submit event, and so
\* handleSubmit, only happens when every enabled input is valid
MinOK(text, min) == IF text = None THEN TRUE ELSE ParseFloat(text) >= min * 100

StepOK(text, base, step) ==
    IF text = None THEN TRUE ELSE (ParseFloat(text) - base * 100) % step = 0

\* the quantity input without its min attribute
FormValid_NoQuantityMin(fd) ==
    /\ fd.trade_date # None
    /\ fd.stock_symbol # <<>>
    /\ fd.quantity # None /\ StepOK(fd.quantity, 1, 100)
    /\ fd.price # None /\ MinOK(fd.price, 0) /\ StepOK(fd.price, 0, 1)
    /\ MinOK(fd.commission, 0) /\ StepOK(fd.commission, 0, 1)
    /\ IF fd.transaction_type = "buy"
       THEN TRUE
       ELSE MinOK(fd.tax, 0) /\ StepOK(fd.tax, 0, 1)

FormValid(fd) ==
    /\ fd.trade_date # None
    /\ fd.stock_symbol # <<>>
    /\ fd.quantity # None /\ MinOK(fd.quantity, 1) /\ StepOK(fd.quantity, 1, 100)
    /\ fd.price # None /\ MinOK(fd.price, 0) /\ StepOK(fd.price, 0, 1)
    /\ MinOK(fd.commission, 0) /\ StepOK(fd.commission, 0, 1)
    /\ IF fd.transaction_type = "buy"
       THEN TRUE                        \* the tax input is disabled
       ELSE MinOK(fd.tax, 0) /\ StepOK(fd.tax, 0, 1)

\* the symbol sent as typed
RecordData_NoUpper(fd) ==
    [trade_date |-> fd.trade_date[1],
     stock_symbol |-> fd.stock_symbol,
     stock_name |-> IF fd.stock_name = "" THEN None ELSE Some(fd.stock_name),
     transaction_type |-> fd.transaction_type,
     quantity |-> ParseInt(fd.quantity),
     price |-> ParseFloat(fd.price),
     commission |-> IF fd.commission = None THEN Some(0)
                    ELSE Some(ParseFloat(fd.commission)),
     tax |-> IF fd.tax = None THEN Some(0) ELSE Some(ParseFloat(fd.tax)),
     notes |-> IF fd.notes = "" THEN None ELSE Some(fd.notes)]

\* ---- handleSubmit: recordData
RecordData(fd) ==
    [trade_date |-> fd.trade_date[1],
     stock_symbol |-> ToUpperCase(fd.stock_symbol),
     stock_name |-> IF fd.stock_name = "" THEN None ELSE Some(fd.stock_name),
     transaction_type |-> fd.transaction_type,
     quantity |-> ParseInt(fd.quantity),
     price |-> ParseFloat(fd.price),
     commission |-> IF fd.commission = None THEN Some(0)
                    ELSE Some(ParseFloat(fd.commission)),
     tax |-> IF fd.tax = None THEN Some(0) ELSE Some(ParseFloat(fd.tax)),
     notes |-> IF fd.notes = "" THEN None ELSE Some(fd.notes)]

\* ---- handleSubmit: { ...recordData, user_id: user.id }
WithOwner(data, uid) ==
    [trade_date |-> data.trade_date,
     stock_symbol |-> data.stock_symbol,
     stock_name |-> data.stock_name,
     transaction_type |-> data.transaction_type,
     quantity |-> data.quantity, price |-> data.price,
     commission |-> data.commission, tax |-> data.tax,
     notes |-> data.notes, user_id |-> uid]

\* ---- the store under row level security; uid is auth.uid() of the call
\* INSERT ... WITH CHECK (auth.uid() = user_id); id, created_at, updated_at
\* take their column defaults
InsertAllowed(uid, payload) == uid = payload.user_id

InsertRow(table, payload, id, time) ==
    table \cup {[id |-> id, user_id |-> payload.user_id,
                 trade_date |-> payload.trade_date,
                 stock_symbol |-> payload.stock_symbol,
                 stock_name |-> payload.stock_name,
                 transaction_type |-> payload.transaction_type,
                 quantity |-> payload.quantity, price |-> payload.price,
                 commission |-> payload.commission, tax |-> payload.tax,
                 notes |-> payload.notes,
                 created_at |-> time, updated_at |-> time]}

\* the trigger missing: updated_at keeps its value
UpdatedRow_NoTrigger(r, data, time) ==
    [r EXCEPT !.trade_date = data.trade_date,
              !.stock_symbol = data.stock_symbol,
              !.stock_name = data.stock_name,
              !.transaction_type = data.transaction_type,
              !.quantity = data.quantity, !.price = data.price,
              !.commission = data.commission, !.tax = data.tax,
              !.notes = data.notes]

\* UPDATE ... USING (auth.uid() = user_id), .eq('id', id); the BEFORE UPDATE
\* trigger sets updated_at
UpdatedRow(r, data, time) ==
    [r EXCEPT !.trade_date = data.trade_date,
              !.stock_symbol = data.stock_symbol,
              !.stock_name = data.stock_name,
              !.transaction_type = data.transaction_type,
              !.quantity = data.quantity, !.price = data.price,
              !.commission = data.commission, !.tax = data.tax,
              !.notes = data.notes, !.updated_at = time]

\* an update that only applies to a row never updated before
UpdateRows_IfUnchanged(table, uid, id, data, time) ==
    {IF r.id = id /\ r.user_id = uid /\ r.updated_at = r.created_at
     THEN UpdatedRow(r, data, time) ELSE r : r \in table}

UpdateRows(table, uid, id, data, time) ==
    {IF r.id = id /\ r.user_id = uid THEN UpdatedRow(r, data, time) ELSE r :
         r \in table}

\* DELETE ... USING (auth.uid() = user_id), .eq('id', id)
DeleteRows(table, uid, id) == {r \in table : ~(r.id = id /\ r.user_id = uid)}

\* the SELECT policy left out: every row is visible to every caller
VisibleRows_NoPolicy(table, uid) == table

\* SELECT ... USING (auth.uid() = user_id)
VisibleRows(table, uid) == {r \in table : r.user_id = uid}

\* .order('trade_date', { ascending: false }): every arrangement of the rows
\* with trade_date descending; rows of one date come in any order
\* the order clause missing: the rows in any order
OrderedLists_AnyOrder(rows) ==
    {f \in [1..Cardinality(rows) -> rows] :
        \A i, j \in 1..Cardinality(rows) : f[i] = f[j] => i = j}

OrderedLists(rows) ==
    {l \in [1..Cardinality(rows) -> rows] :
        /\ \A i, j \in 1..Cardinality(rows) : i # j => l[i] # l[j]
        /\ \A i, j \in 1..Cardinality(rows) :
               i < j => l[i].trade_date >= l[j].trade_date}

SelectRecords(table, uid) == OrderedLists(VisibleRows(table, uid))

\* ------------------------------------------------------- requests in flight
Slots == 1..MaxInflight

Request(kind, uid, id, data, closure) ==
    [kind |-> kind, jwt |-> uid, id |-> id, data |-> data, closure |-> closure,
     formLive |-> kind \in {"insert", "update"},
     phase |-> "sent", res |-> <<>>]

HasFreeSlot == \E s \in Slots : requests[s] = Idle

FreeSlot == CHOOSE s \in Slots : requests[s] = Idle /\ \A t \in Slots : t < s => requests[t] # Idle

\* the form unmounts: its submissions in flight lose their form
FormGone(reqs) ==
    [s \in Slots |-> IF reqs[s] = Idle THEN Idle ELSE [reqs[s] EXCEPT !.formLive = FALSE]]

\* -------------------------------------------------------------- form inputs
Form(date, sym, name, type, qty, price, commission, tax, notes) ==
    [trade_date |-> date, stock_symbol |-> sym, stock_name |-> name,
     transaction_type |-> type, quantity |-> qty, price |-> price,
     commission |-> commission, tax |-> tax, notes |-> notes]

\* what a user may have typed when pressing save on an empty form
CreateInputs ==
    {Form(Some(2), <<"a", "b">>, "", "buy", Numeral(FALSE, 1, 0),
          Numeral(FALSE, 1, 0), None, None, ""),
     \* tax typed while the type was sell, type then switched to buy
     Form(Some(1), <<"a">>, "n", "buy", Numeral(FALSE, 2, 0),
          Numeral(FALSE, 2, 50), Numeral(FALSE, 1, 0), Numeral(TRUE, 5, 0), "x"),
     \* inputs that do not pass validation
     Form(Some(1), <<"a">>, "", "sell", Numeral(FALSE, 1, 0),
          Numeral(FALSE, 1, 0), None, Numeral(TRUE, 5, 0), ""),
     Form(Some(1), <<"a">>, "", "buy", Numeral(FALSE, 0, 0),
          Numeral(FALSE, 1, 0), None, None, ""),
     Form(Some(1), <<"a">>, "", "buy", Numeral(FALSE, 1, 50),
          Numeral(FALSE, 1, 0), None, None, ""),
     Form(Some(1), <<"a">>, "", "buy", Numeral(FALSE, 1, 0),
          Numeral(TRUE, 1, 0), None, None, ""),
     Form(None, <<>>, "", "buy", None, None, None, None, "")}

PriceInputs == {Numeral(FALSE, 2, 50)}
QuantityInputs == {Numeral(FALSE, 2, 0)}

\* what a user may have changed in the form opened on a record
EditInputs(record) ==
    {[FormFromRecord(record) EXCEPT !.price = p] : p \in PriceInputs}
    \cup {[FormFromRecord(record) EXCEPT !.quantity = q] : q \in QuantityInputs}
    \* inputs that do not pass validation
    \cup {[FormFromRecord(record) EXCEPT !.price = Numeral(TRUE, 1, 0)],
          [FormFromRecord(record) EXCEPT !.quantity = Numeral(FALSE, 0, 0)],
          [FormFromRecord(record) EXCEPT !.stock_symbol = <<>>],
          [FormFromRecord(record) EXCEPT !.trade_date = None]}

\* a row the user saved through the form in an earlier session
SeedForm ==
    Form(Some(2), <<"a", "b">>, "", "buy", Numeral(FALSE, 1, 0),
         Numeral(FALSE, 1, 0), None, None, "")

SeedRows == InsertRow({}, WithOwner(RecordData(SeedForm), "u1"), 1, 0)

\* ---------------------------------------------------------------- dashboard
\* the dashboard as constructed
DashboardInitial ==
    /\ records = <<>>
    /\ loading = TRUE
    /\ showForm = FALSE
    /\ editingRecord = None
    /\ formLoading = FALSE
    /\ toast = "none"
    /\ AdminInitial
    /\ AuthInitial

\* Index has rendered TradingDashboard for a signed-in user; its effect has
\* called fetchRecords
InitMain ==
    /\ user = "u1"
    /\ user_roles = [u \in UserIds |-> "norow"]
    /\ InitHook
    /\ DashboardInitial
    /\ \/ trading_records = {} /\ nextId = 1
       \/ trading_records = SeedRows /\ nextId = 2
    /\ now = 1
    /\ requests = [s \in Slots |->
                     IF s = 1 THEN Request("select", user, 0, <<>>, <<>>) ELSE Idle]

Rendered == user # NoUser /\ ~loading

\* the "new trade" button
OpenCreateForm ==
    /\ Rendered /\ ~showForm
    /\ editingRecord' = None
    /\ showForm' = TRUE
    /\ formLoading' = FALSE
    /\ UNCHANGED <<records, loading, toast, requests>>
    /\ UNCHANGED <<roleVars, adminVars, storeVars, authVars>>

\* the edit button of row i
OpenEditForm(i) ==
    /\ Rendered /\ ~showForm
    /\ i \in 1..Len(records)
    /\ editingRecord' = Some(records[i])
    /\ showForm' = TRUE
    /\ formLoading' = FALSE
    /\ UNCHANGED <<records, loading, toast, requests>>
    /\ UNCHANGED <<roleVars, adminVars, storeVars, authVars>>

\* onCancel
CancelForm ==
    /\ Rendered /\ showForm
    /\ showForm' = FALSE
    /\ editingRecord' = None
    /\ formLoading' = FALSE
    /\ requests' = FormGone(requests)
    /\ UNCHANGED <<records, loading, toast>>
    /\ UNCHANGED <<roleVars, adminVars, storeVars, authVars>>

\* handleSubmit up to its await; a create without an identity throws before
\* any store call and runs the catch and finally blocks at once
HandleSubmit(fd) ==
    /\ ~loading /\ showForm /\ ~formLoading
    /\ FormValid(fd)
    /\ IF editingRecord = None /\ user = NoUser
       THEN /\ toast' = "save_error"
            /\ UNCHANGED <<formLoading, requests>>
       ELSE /\ HasFreeSlot
            /\ formLoading' = TRUE
            /\ requests' =
                 [requests EXCEPT ![FreeSlot] =
                    IF editingRecord # None
                    THEN Request("update", user, editingRecord[1].id, RecordData(fd),
                                 editingRecord)
                    ELSE Request("insert", user, 0,
                                 WithOwner(RecordData(fd), user), <<>>)]
            /\ UNCHANGED toast
    /\ UNCHANGED <<records, loading, showForm, editingRecord>>
    /\ UNCHANGED <<roleVars, adminVars, storeVars, authVars>>

\* handleDeleteRecord up to its await; the handler closes over `records`
HandleDeleteRecord(i) ==
    /\ Rendered /\ ~showForm
    /\ i \in 1..Len(records)
    /\ HasFreeSlot
    /\ requests' = [requests EXCEPT ![FreeSlot] =
                       Request("delete", user, records[i].id, <<>>, records)]
    /\ UNCHANGED dashVars
    /\ UNCHANGED <<roleVars, adminVars, storeVars, authVars>>

\* ------------------------------------------------------ the store at work
\* the call of slot s fails (network, policy, constraint): nothing is written
StoreError(s) ==
    /\ requests[s] # Idle /\ requests[s].phase = "sent"
    /\ requests' = [requests EXCEPT ![s].phase = "error"]
    /\ UNCHANGED <<roleVars, adminVars, dashVars, storeVars, authVars>>

StoreSelect(s) ==
    /\ requests[s] # Idle /\ requests[s].phase = "sent"
    /\ requests[s].kind = "select"
    /\ \E l \in SelectRecords(trading_records, requests[s].jwt) :
          requests' = [requests EXCEPT ![s].phase = "ok", ![s].res = l]
    /\ UNCHANGED <<roleVars, adminVars, dashVars, storeVars, authVars>>

StoreInsert(s) ==
    /\ requests[s] # Idle /\ requests[s].phase = "sent"
    /\ requests[s].kind = "insert"
    /\ InsertAllowed(requests[s].jwt, requests[s].data)
    /\ nextId <= MaxRecords /\ now < MaxClock
    /\ trading_records' = InsertRow(trading_records, requests[s].data, nextId, now)
    /\ nextId' = nextId + 1
    /\ now' = now + 1
    /\ requests' = [requests EXCEPT ![s].phase = "ok"]
    /\ UNCHANGED <<roleVars, adminVars, dashVars, authVars>>

StoreUpdate(s) ==
    /\ requests[s] # Idle /\ requests[s].phase = "sent"
    /\ requests[s].kind = "update"
    /\ now < MaxClock
    /\ trading_records' = UpdateRows(trading_records, requests[s].jwt,
                                     requests[s].id, requests[s].data, now)
    /\ now' = now + 1
    /\ requests' = [requests EXCEPT ![s].phase = "ok"]
    /\ UNCHANGED nextId
    /\ UNCHANGED <<roleVars, adminVars, dashVars, authVars>>

StoreDelete(s) ==
    /\ requests[s] # Idle /\ requests[s].phase = "sent"
    /\ requests[s].kind = "delete"
    /\ trading_records' = DeleteRows(trading_records, requests[s].jwt, requests[s].id)
    /\ requests' = [requests EXCEPT ![s].phase = "ok"]
    /\ UNCHANGED <<nextId, now>>
    /\ UNCHANGED <<roleVars, adminVars, dashVars, authVars>>

\* ------------------------------------------- the continuations after await
Answered(s) == requests[s] # Idle /\ requests[s].phase \in {"ok", "error"}

\* fetchRecords with setLoading(false) at the end of the try block
FetchRecordsDone_NoFinally(s) ==
    /\ Answered(s) /\ requests[s].kind = "select"
    /\ requests' = [requests EXCEPT ![s] = Idle]
    /\ records' = IF requests[s].phase = "ok" THEN requests[s].res ELSE records
    /\ loading' = IF requests[s].phase = "ok" THEN FALSE ELSE loading
    /\ toast' = IF requests[s].phase = "ok" THEN toast ELSE "fetch_error"
    /\ UNCHANGED <<showForm, editingRecord, formLoading>>
    /\ UNCHANGED <<roleVars, adminVars, storeVars, authVars>>

\* fetchRecords after its await
FetchRecordsDone(s) ==
    /\ Answered(s) /\ requests[s].kind = "select"
    /\ requests' = [requests EXCEPT ![s] = Idle]
    /\ records' = IF requests[s].phase = "ok" THEN requests[s].res ELSE records
    /\ loading' = FALSE
    /\ toast' = IF requests[s].phase = "ok" THEN toast ELSE "fetch_error"
    /\ UNCHANGED <<showForm, editingRecord, formLoading>>
    /\ UNCHANGED <<roleVars, adminVars, storeVars, authVars>>

\* handleDeleteRecord without the `if (error) throw error`
DeleteRecordDone_NoThrow(s) ==
    /\ Answered(s) /\ requests[s].kind = "delete"
    /\ requests' = [requests EXCEPT ![s] = Idle]
    /\ records' = FilterOut(requests[s].closure, requests[s].id)
    /\ toast' = "deleted"
    /\ UNCHANGED <<loading, showForm, editingRecord, formLoading>>
    /\ UNCHANGED <<roleVars, adminVars, storeVars, authVars>>

\* handleDeleteRecord after its await
DeleteRecordDone(s) ==
    /\ Answered(s) /\ requests[s].kind = "delete"
    /\ requests' = [requests EXCEPT ![s] = Idle]
    /\ records' = IF requests[s].phase = "ok"
                  THEN FilterOut(requests[s].closure, requests[s].id)
                  ELSE records
    /\ toast' = IF requests[s].phase = "ok" THEN "deleted" ELSE "delete_error"
    /\ UNCHANGED <<loading, showForm, editingRecord, formLoading>>
    /\ UNCHANGED <<roleVars, adminVars, storeVars, authVars>>

\* handleFormSuccess without its fetchRecords()
SubmitDone_NoRefetch(s) ==
    /\ Answered(s) /\ requests[s].kind \in {"insert", "update"}
    /\ IF requests[s].phase = "ok"
       THEN /\ showForm' = FALSE
            /\ editingRecord' = None
            /\ formLoading' = FALSE
            /\ requests' = [FormGone(requests) EXCEPT ![s] = Idle]
       ELSE /\ formLoading' = IF requests[s].formLive THEN FALSE ELSE formLoading
            /\ requests' = [requests EXCEPT ![s] = Idle]
            /\ UNCHANGED <<showForm, editingRecord>>
    /\ toast' = IF requests[s].phase = "ok" THEN "saved" ELSE "save_error"
    /\ UNCHANGED <<records, loading>>
    /\ UNCHANGED <<roleVars, adminVars, storeVars, authVars>>

\* handleSubmit after its await; on success onSuccess() is handleFormSuccess,
\* which closes the form and calls fetchRecords
SubmitDone(s) ==
    /\ Answered(s) /\ requests[s].kind \in {"insert", "update"}
    /\ IF requests[s].phase = "ok"
       THEN /\ showForm' = FALSE
            /\ editingRecord' = None
            /\ formLoading' = FALSE
            /\ requests' = [FormGone(requests) EXCEPT ![s] =
                               Request("select", user, 0, <<>>, <<>>)]
       ELSE /\ formLoading' = IF requests[s].formLive THEN FALSE ELSE formLoading
            /\ requests' = [requests EXCEPT ![s] = Idle]
            /\ UNCHANGED <<showForm, editingRecord>>
    /\ toast' = IF requests[s].phase = "ok" THEN "saved" ELSE "save_error"
    /\ UNCHANGED <<records, loading>>
    /\ UNCHANGED <<roleVars, adminVars, storeVars, authVars>>

Next ==
    \/ OpenCreateForm
    \/ \E i \in 1..MaxRecords : OpenEditForm(i)
    \/ CancelForm
    \/ \E fd \in IF editingRecord = None THEN CreateInputs
                   ELSE EditInputs(editingRecord[1]) : HandleSubmit(fd)
    \/ \E i \in 1..MaxRecords : HandleDeleteRecord(i)
    \/ \E s \in Slots : StoreError(s)
    \/ \E s \in Slots : StoreSelect(s)
    \/ \E s \in Slots : StoreInsert(s)
    \/ \E s \in Slots : StoreUpdate(s)
    \/ \E s \in Slots : StoreDelete(s)
    \/ \E s \in Slots : FetchRecordsDone(s)
    \/ \E s \in Slots : DeleteRecordDone(s)
    \/ \E s \in Slots : SubmitDone(s)

Spec == InitMain /\ [][Next]_vars

\* ------------------------------------- the repository called by any identity
\* the forms the application sends rows from
RepoForms == {fd \in CreateInputs : FormValid(fd)}

\* what the application sends with a call: { ...recordData, user_id } on
\* insert, recordData on update, nothing else
RepoData(kind, fd, owner) ==
    IF kind = "insert" THEN WithOwner(RecordData(fd), owner)
    ELSE IF kind = "update" THEN RecordData(fd)
    ELSE <<>>

InitRepo ==
    /\ user = NoUser
    /\ user_roles = [u \in UserIds |-> "norow"]
    /\ InitHook
    /\ DashboardInitial
    /\ trading_records = {}
    /\ nextId = 1
    /\ now = 1
    /\ requests = [s \in Slots |-> Idle]

\* identity u calls list / create / update / delete; one read and one write
\* may be in flight together
RepoCall(u, kind, id, fd, owner) ==
    LET s == IF kind = "select" THEN 1 ELSE MaxInflight
    IN  /\ requests[s] = Idle
        /\ requests' = [requests EXCEPT ![s] =
                           Request(kind, u, id, RepoData(kind, fd, owner), <<>>)]
    /\ UNCHANGED <<roleVars, adminVars, dashVars, storeVars, authVars>>

\* the caller takes the answer
RepoReturn(s) ==
    /\ Answered(s)
    /\ requests' = [requests EXCEPT ![s] = Idle]
    /\ UNCHANGED <<roleVars, adminVars, dashVars, storeVars, authVars>>

NextRepo ==
    \/ \E u \in UserIds : RepoCall(u, "select", 0, SeedForm, u)
    \/ \E u, owner \in UserIds : \E fd \in RepoForms :
           RepoCall(u, "insert", 0, fd, owner)
    \/ \E u \in UserIds : \E id \in 1..MaxRecords : \E fd \in RepoForms :
           RepoCall(u, "update", id, fd, u)
    \/ \E u \in UserIds : \E id \in 1..MaxRecords :
           RepoCall(u, "delete", id, SeedForm, u)
    \/ \E s \in Slots : StoreError(s)
    \/ \E s \in Slots : StoreSelect(s)
    \/ \E s \in Slots : StoreInsert(s)
    \/ \E s \in Slots : StoreUpdate(s)
    \/ \E s \in Slots : StoreDelete(s)
    \/ \E s \in Slots : RepoReturn(s)

SpecRepo == InitRepo /\ [][NextRepo]_vars

\* the call in slot s is answered in this step
AnsweredNow(s) ==
    /\ requests[s] # Idle /\ requests[s].phase = "sent"
    /\ requests'[s].phase # "sent"

\* C4: a list() answered to identity B holds no row of another identity, and
\* no call made as B changes or removes a row of another identity.
C4_Isolation ==
    /\ [](\A s \in Slots :
            (requests[s] # Idle /\ requests[s].kind = "select"
                /\ requests[s].phase = "ok") =>
                \A i \in 1..Len(requests[s].res) :
                    requests[s].res[i].user_id = requests[s].jwt)
    /\ [][\A s \in Slots : AnsweredNow(s) =>
            \A r \in trading_records :
                r.user_id # requests[s].jwt => r \in trading_records']_vars

\* identity B has listed, and has had a delete and an update of A's row
\* answered, while A's row is in the store
C4_Witness ==
    \E a, b \in UserIds :
        /\ a # b
        /\ \E r \in trading_records : r.user_id = a
        /\ \E s \in Slots :
              /\ requests[s] # Idle /\ requests[s].jwt = b
              /\ requests[s].phase = "ok"
              /\ requests[s].kind \in {"delete", "update"}
              /\ \E r \in trading_records : r.user_id = a /\ r.id = requests[s].id
        /\ \E s \in Slots :
              /\ requests[s] # Idle /\ requests[s].jwt = b
              /\ requests[s].phase = "ok" /\ requests[s].kind = "select"

\* ========================================================= Admin Directory
\* ------------------------------------------------- the store, admin queries
\* "Users can view their own profile": USING (auth.uid() = user_id)
VisibleProfiles_NoPolicy(rows, uid) == rows

VisibleProfiles(rows, uid) == {p \in rows : p.user_id = uid}

\* the embedded user_roles (role) of one profile: the role rows of its identity
EmbedRoles(table, uid) ==
    IF table[uid] = "norow" THEN <<>> ELSE <<[role |-> table[uid]]>>

\* every enumeration of the finite set S (a select without ORDER BY)
Orderings(S) ==
    {f \in [1..Cardinality(S) -> S] : \A i, j \in 1..Cardinality(S) : f[i] = f[j] => i = j}

\* from('profiles').select('id, user_id, email, display_name, created_at,
\* user_roles (role)') as identity uid
SelectProfiles(rows, table, uid) ==
    {[i \in 1..Len(l) |->
         [id |-> l[i].id, user_id |-> l[i].user_id, email |-> l[i].email,
          display_name |-> l[i].display_name, created_at |-> l[i].created_at,
          user_roles |-> EmbedRoles(table, l[i].user_id)]] :
       l \in Orderings(VisibleProfiles(rows, uid))}

\* select('*', { count: 'exact', head: true }) as identity uid: the number of
\* rows the select policy lets the caller see
CountRecords(table, uid) == Cardinality(VisibleRows(table, uid))

\* who may write user_roles: an identity whose own row says admin
UpsertAllowed(table, jwt) == table[jwt] = "admin"

\* upsert({ user_id, role }): the identity's row is inserted or replaced
UpsertRole(table, uid, newRole) == [table EXCEPT ![uid] = newRole]

\* ------------------------------------------------------------ AdminDashboard
OrEmpty(v) == IF v = None THEN "" ELSE v[1]

\* the role column read from the wrong place: every user comes out as 'user'
FormatUsers_NoRole(data) ==
    [i \in 1..Len(data) |->
        [id |-> data[i].user_id, email |-> OrEmpty(data[i].email),
         display_name |-> OrEmpty(data[i].display_name),
         created_at |-> data[i].created_at, role |-> "user"]]

\* usersData.map(user => ({ id, email || '', display_name || '', created_at,
\* role: user_roles?.[0]?.role || 'user' }))
FormatUsers(data) ==
    [i \in 1..Len(data) |->
        [id |-> data[i].user_id, email |-> OrEmpty(data[i].email),
         display_name |-> OrEmpty(data[i].display_name),
         created_at |-> data[i].created_at,
         role |-> IF data[i].user_roles = <<>> THEN "user"
                  ELSE data[i].user_roles[1].role]]

\* the filter left out: every listed user is counted
CountAdmins_NoFilter(us) == Len(us)

\* formattedUsers.filter(u => u.role === 'admin').length
CountAdmins(us) == Cardinality({i \in 1..Len(us) : us[i].role = "admin"})

\* users.map(user => user.id === userId ? { ...user, role: newRole } : user)
SetRoleIn(us, userId, newRole) ==
    [i \in 1..Len(us) |-> IF us[i].id = userId THEN [us[i] EXCEPT !.role = newRole]
                          ELSE us[i]]

\* a store call of AdminDashboard: `live` while the instance that made it is
\* mounted, `formatted` and `closure` the locals the continuation holds
AdminCall(kind, uid, target, newRole, closure) ==
    [kind |-> kind, jwt |-> uid, target |-> target, newRole |-> newRole,
     closure |-> closure, formatted |-> <<>>, live |-> TRUE,
     phase |-> "sent", res |-> <<>>]

HasFreeCall == \E c \in AdminSlots : adminCalls[c] = NoCall

FreeCall == CHOOSE c \in AdminSlots :
                adminCalls[c] = NoCall /\ \A d \in AdminSlots : d < c => adminCalls[d] # NoCall

\* the admin tab's content is rendered
AdminTabShown == user # NoUser /\ ~(loading \/ roleLoading) /\ isAdmin

AdminMounted == AdminTabShown /\ activeTab = "admin"

\* the admin tab's trigger: the content mounts, its effect calls
\* fetchSystemData, which runs up to its first await
OpenAdminTab ==
    /\ AdminTabShown /\ activeTab = "trading"
    /\ HasFreeCall
    /\ activeTab' = "admin"
    /\ users' = <<>>
    /\ stats' = ZeroStats
    /\ adminLoading' = TRUE
    /\ adminCalls' = [adminCalls EXCEPT ![FreeCall] =
                         AdminCall("profiles", user, NoUser, "user", <<>>)]
    /\ UNCHANGED profiles
    /\ UNCHANGED <<roleVars, dashVars, storeVars, requests, authVars>>

\* the trading tab's trigger: the admin content unmounts
OpenTradingTab ==
    /\ AdminMounted
    /\ activeTab' = "trading"
    /\ adminCalls' = [c \in AdminSlots |->
                         IF adminCalls[c] = NoCall THEN NoCall
                         ELSE [adminCalls[c] EXCEPT !.live = FALSE]]
    /\ UNCHANGED <<profiles, users, stats, adminLoading>>
    /\ UNCHANGED <<roleVars, dashVars, storeVars, requests, authVars>>

\* updateUserRole(userId, newRole) up to its await; the row's select calls it
\* only with a role other than the one shown; the handler closes over `users`
UpdateUserRole(userId, newRole) ==
    /\ AdminMounted /\ ~adminLoading
    /\ HasFreeCall
    /\ \A i \in 1..Len(users) : users[i].id = userId => users[i].role # newRole
    /\ adminCalls' = [adminCalls EXCEPT ![FreeCall] =
                         AdminCall("upsert", user, userId, newRole, users)]
    /\ UNCHANGED <<activeTab, profiles, users, stats, adminLoading>>
    /\ UNCHANGED <<roleVars, dashVars, storeVars, requests, authVars>>

\* the store fails the call of slot c
AdminStoreError(c) ==
    /\ adminCalls[c] # NoCall /\ adminCalls[c].phase = "sent"
    /\ adminCalls' = [adminCalls EXCEPT ![c].phase = "error"]
    /\ UNCHANGED <<activeTab, profiles, users, stats, adminLoading>>
    /\ UNCHANGED <<roleVars, dashVars, storeVars, requests, authVars>>

StoreProfiles(c) ==
    /\ adminCalls[c] # NoCall /\ adminCalls[c].phase = "sent"
    /\ adminCalls[c].kind = "profiles"
    /\ \E l \in SelectProfiles(profiles, user_roles, adminCalls[c].jwt) :
          adminCalls' = [adminCalls EXCEPT ![c].phase = "ok", ![c].res = l]
    /\ UNCHANGED <<activeTab, profiles, users, stats, adminLoading>>
    /\ UNCHANGED <<roleVars, dashVars, storeVars, requests, authVars>>

StoreCount(c) ==
    /\ adminCalls[c] # NoCall /\ adminCalls[c].phase = "sent"
    /\ adminCalls[c].kind = "count"
    /\ adminCalls' = [adminCalls EXCEPT
                         ![c].phase = "ok",
                         ![c].res = Some(CountRecords(trading_records, adminCalls[c].jwt))]
    /\ UNCHANGED <<activeTab, profiles, users, stats, adminLoading>>
    /\ UNCHANGED <<roleVars, dashVars, storeVars, requests, authVars>>

\* the upsert is applied, or refused by the store's policy
StoreUpsert(c) ==
    /\ adminCalls[c] # NoCall /\ adminCalls[c].phase = "sent"
    /\ adminCalls[c].kind = "upsert"
    /\ IF UpsertAllowed(user_roles, adminCalls[c].jwt)
       THEN /\ user_roles' = UpsertRole(user_roles, adminCalls[c].target,
                                        adminCalls[c].newRole)
            /\ adminCalls' = [adminCalls EXCEPT ![c].phase = "ok"]
       ELSE /\ adminCalls' = [adminCalls EXCEPT ![c].phase = "error"]
            /\ UNCHANGED user_roles
    /\ UNCHANGED <<user, role, roleLoading, effectPending, lookups, nLookups>>
    /\ UNCHANGED <<activeTab, profiles, users, stats, adminLoading>>
    /\ UNCHANGED <<dashVars, storeVars, requests, authVars>>

AdminAnswered(c) == adminCalls[c] # NoCall /\ adminCalls[c].phase \in {"ok", "error"}

\* fetchSystemData after its first await: on an error the catch and finally
\* blocks, else setUsers and the count query
ProfilesDone(c) ==
    /\ AdminAnswered(c) /\ adminCalls[c].kind = "profiles"
    /\ IF adminCalls[c].phase = "error"
       THEN /\ toast' = "admin_load_error"
            /\ adminLoading' = IF adminCalls[c].live THEN FALSE ELSE adminLoading
            /\ adminCalls' = [adminCalls EXCEPT ![c] = NoCall]
            /\ UNCHANGED users
       ELSE /\ users' = IF adminCalls[c].live THEN FormatUsers(adminCalls[c].res)
                        ELSE users
            /\ adminCalls' = [adminCalls EXCEPT ![c] =
                  [AdminCall("count", adminCalls[c].jwt, NoUser, "user", <<>>)
                      EXCEPT !.formatted = FormatUsers(adminCalls[c].res),
                             !.live = adminCalls[c].live]]
            /\ UNCHANGED <<toast, adminLoading>>
    /\ UNCHANGED <<activeTab, profiles, stats>>
    /\ UNCHANGED <<records, loading, showForm, editingRecord, formLoading>>
    /\ UNCHANGED <<roleVars, storeVars, requests, authVars>>

\* fetchSystemData after its second await; the count's error is not looked
\* at, a missing count reads as 0
CountDone(c) ==
    /\ AdminAnswered(c) /\ adminCalls[c].kind = "count"
    /\ LET formattedUsers == adminCalls[c].formatted
           recordsCount == IF adminCalls[c].phase = "ok" THEN adminCalls[c].res[1] ELSE 0
       IN  stats' = IF adminCalls[c].live
                    THEN [totalUsers |-> Len(formattedUsers),
                          totalRecords |-> recordsCount,
                          adminUsers |-> CountAdmins(formattedUsers),
                          activeUsers |-> Len(formattedUsers)]
                    ELSE stats
    /\ adminLoading' = IF adminCalls[c].live THEN FALSE ELSE adminLoading
    /\ adminCalls' = [adminCalls EXCEPT ![c] = NoCall]
    /\ UNCHANGED <<activeTab, profiles, users>>
    /\ UNCHANGED <<roleVars, dashVars, storeVars, requests, authVars>>

\* updateUserRole after its await
UpsertDone(c) ==
    /\ AdminAnswered(c) /\ adminCalls[c].kind = "upsert"
    /\ LET updatedUsers == SetRoleIn(adminCalls[c].closure, adminCalls[c].target,
                                     adminCalls[c].newRole)
       IN  IF adminCalls[c].phase = "ok"
           THEN /\ users' = IF adminCalls[c].live THEN updatedUsers ELSE users
                /\ stats' = IF adminCalls[c].live
                            THEN [stats EXCEPT !.adminUsers = CountAdmins(updatedUsers)]
                            ELSE stats
                /\ toast' = "role_updated"
           ELSE /\ toast' = "role_error"
                /\ UNCHANGED <<users, stats>>
    /\ adminCalls' = [adminCalls EXCEPT ![c] = NoCall]
    /\ UNCHANGED <<activeTab, profiles, adminLoading>>
    /\ UNCHANGED <<records, loading, showForm, editingRecord, formLoading>>
    /\ UNCHANGED <<roleVars, storeVars, requests, authVars>>

NextAdmin ==
    \/ OpenAdminTab
    \/ OpenTradingTab
    \/ \E u \in UserIds : \E r \in Roles : UpdateUserRole(u, r)
    \/ \E c \in AdminSlots : AdminStoreError(c)
    \/ \E c \in AdminSlots : StoreProfiles(c)
    \/ \E c \in AdminSlots : StoreCount(c)
    \/ \E c \in AdminSlots : StoreUpsert(c)
    \/ \E c \in AdminSlots : ProfilesDone(c)
    \/ \E c \in AdminSlots : CountDone(c)
    \/ \E c \in AdminSlots : UpsertDone(c)

\* one trading record of each identity
AdminSeedRows ==
    InsertRow(InsertRow({}, WithOwner(RecordData(SeedForm), "u1"), 1, 0),
              WithOwner(RecordData(SeedForm), "u2"), 2, 0)

\* an administrator's dashboard at rest: role resolved, records fetched
InitAdmin ==
    /\ user = "u1"
    /\ user_roles \in {f \in [UserIds -> {"norow", "admin", "user"}] : f["u1"] = "admin"}
    /\ role = "admin"
    /\ roleLoading = FALSE
    /\ effectPending = FALSE
    /\ lookups = {}
    /\ nLookups = 1
    /\ trading_records = AdminSeedRows
    /\ nextId = 3
    /\ now = 1
    /\ records \in SelectRecords(trading_records, user)
    /\ loading = FALSE
    /\ showForm = FALSE
    /\ editingRecord = None
    /\ formLoading = FALSE
    /\ toast = "none"
    /\ requests = [s \in Slots |-> Idle]
    /\ AdminInitial
    /\ AuthInitial

SpecAdmin == InitAdmin /\ [][NextAdmin]_vars

\* ------------------------------------------------------------------ claims
\* C7: through the application's create and update the three totals stay
\* non-negative.
C7_TotalsNonNegative ==
    /\ totalInvestment >= 0
    /\ totalReturn >= 0
    /\ totalFees >= 0

\* C8: an empty record set gives zero for every statistic and a trade count
\* of zero.
C8_EmptyIsZero ==
    records = <<>> =>
        /\ totalInvestment = 0
        /\ totalReturn = 0
        /\ totalFees = 0
        /\ totalPnL = 0
        /\ tradeCount = 0

\* the dashboard has fetched and shows an empty list
C8_Witness == records = <<>> /\ ~loading

\* no store call is in flight and the local list is what list() can return
InSync ==
    /\ Rendered
    /\ \A s \in Slots : requests[s] = Idle
    /\ records \in SelectRecords(trading_records, user)

\* the rows after the create of fd by the user, and after its deletion
AfterCreate(fd) ==
    InsertRow(trading_records, WithOwner(RecordData(fd), user), nextId, now)

AfterCreateDelete(fd) == DeleteRows(AfterCreate(fd), user, nextId)

ValidCreateInputs == {fd \in CreateInputs : FormValid(fd)}

\* C9 as stated: after create (and the refetch it triggers) and delete of the
\* created record, list() and the local list are exactly what they were.
C9_RoundTripExact ==
    InSync =>
        \A fd \in ValidCreateInputs :
            /\ SelectRecords(AfterCreateDelete(fd), user) =
                   SelectRecords(trading_records, user)
            /\ \A fetched \in SelectRecords(AfterCreate(fd), user) :
                   FilterOut(fetched, nextId) = records

\* C9 amended: the rows of the store are exactly the prior ones, and the
\* local list is again a list() result of them: the same records with
\* trade_date descending, records of one date in any order.
C9_RoundTrip ==
    InSync =>
        \A fd \in ValidCreateInputs :
            /\ AfterCreateDelete(fd) = trading_records
            /\ SelectRecords(AfterCreateDelete(fd), user) =
                   SelectRecords(trading_records, user)
            /\ \A fetched \in SelectRecords(AfterCreate(fd), user) :
                   /\ \E i \in 1..Len(fetched) : fetched[i].id = nextId
                   /\ FilterOut(fetched, nextId) \in
                          SelectRecords(trading_records, user)

\* a record has been created and deleted again, other records remain, and
\* the dashboard is at rest with a current list
C9_Witness ==
    /\ InSync
    /\ records # <<>>
    /\ \E id \in 1..(nextId - 1) : \A r \in trading_records : r.id # id

\* the update in slot s comes from the edit form with at most the price
\* changed; its closure holds the record the form was opened on
PriceOnlyEdit(s) ==
    /\ requests[s] # Idle /\ requests[s].kind = "update"
    /\ [requests[s].data EXCEPT !.price = requests[s].closure[1].price]
           = RecordData(FormFromRecord(requests[s].closure[1]))

\* r2 differs from r1 at most in price and updated_at
SameButPrice(r1, r2) ==
    [r2 EXCEPT !.price = r1.price, !.updated_at = r1.updated_at] = r1

\* C10 as stated: when the store applies a price-only edit, the row keeps
\* every field but price and updated_at.
C10_OnlyPriceChangesExact ==
    [][\A s \in Slots : (PriceOnlyEdit(s) /\ AnsweredNow(s)) =>
          \A r \in trading_records : r.id = requests[s].id =>
              \E r2 \in trading_records' : SameButPrice(r, r2)]_vars

\* C10 amended: a price-only edit writes the price entered and refreshes
\* updated_at; id, owner and created_at keep their stored values; every other
\* field takes the value of the record the form was opened on, so that the
\* row is otherwise unchanged when that record still equals the stored row.
C10_OnlyPriceChanges ==
    [][\A s \in Slots : (PriceOnlyEdit(s) /\ AnsweredNow(s) /\ requests'[s].phase = "ok") =>
          \A r \in trading_records : r.id = requests[s].id =>
              \E r2 \in trading_records' :
                  /\ r2.id = r.id /\ r2.user_id = r.user_id
                  /\ r2.created_at = r.created_at
                  /\ r2.price = requests[s].data.price
                  /\ r2.updated_at = now /\ r2.updated_at > r.updated_at
                  /\ \A f \in {"trade_date", "stock_symbol", "stock_name",
                               "transaction_type", "quantity", "commission",
                               "tax", "notes"} :
                         r2[f] = requests[s].closure[1][f]
                  /\ SameButPrice(requests[s].closure[1],
                                  [r EXCEPT !.updated_at =
                                      requests[s].closure[1].updated_at])
                         => SameButPrice(r, r2)]_vars

\* a price-only edit of a current record has been applied: the stored row
\* has the new price and a later updated_at
C10_Witness ==
    \E s \in Slots :
        /\ PriceOnlyEdit(s)
        /\ requests[s].phase = "ok"
        /\ \E r \in trading_records :
              /\ r.id = requests[s].id
              /\ r.price = requests[s].data.price
              /\ r.price # requests[s].closure[1].price
              /\ r.updated_at > requests[s].closure[1].updated_at
              /\ SameButPrice(requests[s].closure[1], r)

\* no effect is scheduled and no lookup is in flight
RoleQuiescent == ~effectPending /\ lookups = {}

\* C1: once every lookup has completed, the reported role is one resolved
\* for the current identity (null when there is none), never a role that
\* only a lookup for an earlier identity could have produced.
C1_NoStaleRole ==
    RoleQuiescent =>
        IF user = NoUser THEN role = "null"
        ELSE role \in {ResolveRole(res) : res \in LookupOutcomes(user_roles, user)}

\* C2: the role a completing lookup reports is admin exactly when the query
\* succeeded with a row whose role is admin; with no row, an error result or
\* an exception it is user.
C2_AdminOnlyFromAdminRow ==
    [][\A l \in lookups :
          (l.res # "pending" /\ \A m \in lookups' : m.id # l.id) =>
              /\ role' \in Roles
              /\ (role' = "admin") <=> (l.res = "admin")
              /\ (l.res \in {"norow", "error", "throw"}) => (role' = "user")]_vars

\* a single lookup for an admin has failed and left the role at user
C2_Witness ==
    /\ role = "user"
    /\ user # NoUser
    /\ user_roles[user] = "admin"
    /\ nLookups = 1
    /\ RoleQuiescent

\* C3: with no identity (and the effect for that render run) the resolver
\* reports the unresolved state.
C3_UnresolvedWithoutIdentity ==
    (user = NoUser /\ ~effectPending) =>
        /\ role = "null"
        /\ roleLoading = FALSE
        /\ ~isAdmin
        /\ ~isUser

\* the store answers the admin call of slot c in this step
AdminAnsweredNow(c) ==
    /\ adminCalls[c] # NoCall /\ adminCalls[c].phase = "sent"
    /\ adminCalls'[c].phase # "sent"

\* the setRole of slot k has succeeded and its role is the one now stored
SetRoleStands(k) ==
    /\ adminCalls[k] # NoCall /\ adminCalls[k].kind = "upsert"
    /\ adminCalls[k].phase = "ok"
    /\ user_roles[adminCalls[k].target] = adminCalls[k].newRole

FormInputs ==
    IF editingRecord = None THEN CreateInputs ELSE EditInputs(editingRecord[1])

\* what the claim calls invalid: quantity not a positive integer, price
\* negative or not a number, trade date or stock symbol missing
Rejectable(fd) ==
    \/ fd.trade_date = None
    \/ fd.stock_symbol = <<>>
    \/ IF fd.quantity = None THEN TRUE
       ELSE fd.quantity[1].neg \/ fd.quantity[1].int < 1 \/ fd.quantity[1].frac # 0
    \/ IF fd.price = None THEN TRUE ELSE fd.price[1].neg

\* a row or payload with quantity >= 1, price >= 0 and a stock symbol
FieldsAcceptable(d) == d.quantity >= 1 /\ d.price >= 0 /\ d.stock_symbol # <<>>

InitForm ==
    /\ user \in UserIds \cup {NoUser}
    /\ user_roles = [u \in UserIds |-> "norow"]
    /\ InitHook
    /\ records = <<>>
    /\ loading = FALSE
    /\ showForm = TRUE
    /\ editingRecord = None
    /\ formLoading = FALSE
    /\ toast = "none"
    /\ AdminInitial
    /\ AuthInitial
    /\ trading_records = SeedRows
    /\ nextId = 2
    /\ now = 1
    /\ requests = [s \in Slots |-> Idle]

NextForm ==
    \/ OpenCreateForm
    \/ CancelForm
    \/ \E fd \in CreateInputs : HandleSubmit(fd)
    \/ \E s \in Slots : StoreError(s)
    \/ \E s \in Slots : StoreSelect(s)
    \/ \E s \in Slots : StoreInsert(s)
    \/ \E s \in Slots : FetchRecordsDone(s)
    \/ \E s \in Slots : SubmitDone(s)

SpecForm == InitForm /\ [][NextForm]_vars

IsUpperCase(sym) == \A i \in 1..Len(sym) : sym[i] \notin {"a", "b"}

LowerChar(c) == IF c = "A" THEN "a" ELSE IF c = "B" THEN "b" ELSE c

\* the same symbol up to the case of its letters
SameLetters(s1, s2) ==
    /\ Len(s1) = Len(s2)
    /\ \A i \in 1..Len(s1) : LowerChar(s1[i]) = LowerChar(s2[i])

\* C13: a create sends, and the store persists, a row with the symbol typed
\* in uppercase, commission and tax 0 where the form left them empty, and the
\* owner equal to the identity that submitted; a create submitted with no
\* identity makes no store call, stores nothing and raises the failure
\* notification.
C13_CreateNormalises ==
    /\ [](\A s \in Slots :
             (requests[s] # Idle /\ requests[s].kind = "insert") =>
                 requests[s].jwt # NoUser)
    /\ [][\A fd \in CreateInputs : (editingRecord = None /\ HandleSubmit(fd)) =>
            IF user = NoUser
            THEN /\ requests' = requests
                 /\ trading_records' = trading_records
                 /\ toast' = "save_error"
            ELSE LET d == requests'[FreeSlot].data
                 IN  /\ d.user_id = user
                     /\ IsUpperCase(d.stock_symbol)
                     /\ SameLetters(d.stock_symbol, fd.stock_symbol)
                     /\ (fd.commission = None) => (d.commission = Some(0))
                     /\ (fd.tax = None) => (d.tax = Some(0))]_vars
    /\ [][\A s \in Slots :
            (AnsweredNow(s) /\ requests[s].kind = "insert"
                /\ requests'[s].phase = "ok") =>
                \E r \in trading_records' \ trading_records :
                    /\ trading_records' = trading_records \cup {r}
                    /\ r.user_id = requests[s].jwt
                    /\ r.user_id = requests[s].data.user_id
                    /\ r.stock_symbol = requests[s].data.stock_symbol
                    /\ r.commission = requests[s].data.commission
                    /\ r.tax = requests[s].data.tax]_vars

\* a row typed with a lowercase symbol and empty commission and tax has been
\* persisted for the identity that submitted it
C13_Witness ==
    \E r \in trading_records :
        /\ r.created_at > 0
        /\ r.user_id = user
        /\ r.stock_symbol = <<"A", "B">>
        /\ r.commission = Some(0) /\ r.tax = Some(0)

\* ------------------------------------ the dashboard over a longer history
\* three records saved in earlier sessions, two of them of one date
ListSeedRows ==
    InsertRow(InsertRow(SeedRows,
                        WithOwner([RecordData(SeedForm) EXCEPT !.trade_date = 2],
                                  "u1"), 2, 0),
              WithOwner([RecordData(SeedForm) EXCEPT !.trade_date = 1], "u1"),
              3, 0)

InitList ==
    /\ user = "u1"
    /\ user_roles = [u \in UserIds |-> "norow"]
    /\ InitHook
    /\ DashboardInitial
    /\ trading_records = ListSeedRows
    /\ nextId = 4
    /\ now = 1
    /\ requests = [s \in Slots |->
                     IF s = 1 THEN Request("select", user, 0, <<>>, <<>>) ELSE Idle]

\* the dashboard with its forms left closed: the fetch of the mount and the
\* delete buttons
NextList ==
    \/ \E i \in 1..Cardinality(ListSeedRows) : HandleDeleteRecord(i)
    \/ \E s \in Slots : StoreError(s)
    \/ \E s \in Slots : StoreSelect(s)
    \/ \E s \in Slots : StoreDelete(s)
    \/ \E s \in Slots : FetchRecordsDone(s)
    \/ \E s \in Slots : DeleteRecordDone(s)

SpecList == InitList /\ [][NextList]_vars

TradeDateDescending(l) ==
    \A i, j \in 1..Len(l) : i < j => l[i].trade_date >= l[j].trade_date

\* C14: every list() answer holds exactly the caller's records with trade
\* date descending, and the list the dashboard holds has trade date descending
\* in every state.
C14_ListOrdered ==
    /\ [](/\ TradeDateDescending(records)
          /\ \A s \in Slots :
                (requests[s] # Idle /\ requests[s].kind = "select"
                    /\ requests[s].phase = "ok") =>
                    TradeDateDescending(requests[s].res))
    /\ [][\A s \in Slots :
            (AnsweredNow(s) /\ requests[s].kind = "select"
                /\ requests'[s].phase = "ok") =>
                /\ {requests'[s].res[i] : i \in 1..Len(requests'[s].res)} =
                       {r \in trading_records : r.user_id = requests[s].jwt}
                /\ Len(requests'[s].res) =
                       Cardinality({r \in trading_records : r.user_id = requests[s].jwt})]_vars

\* after a local deletion the dashboard holds two records of different dates
C14_Witness ==
    /\ toast = "deleted"
    /\ Len(records) = 2
    /\ records[1].trade_date > records[2].trade_date

\* ------------------------------------- the dashboard and the role resolver
\* TradingDashboard mounted for a signed-in identity; it stays mounted while
\* useAuth goes from one identity to another (Index unmounts it only when
\* there is none)
InitGate ==
    /\ user \in UserIds
    /\ user_roles \in [UserIds -> {"norow", "admin", "user"}]
    /\ InitHook
    /\ DashboardInitial
    /\ trading_records = {}
    /\ nextId = 1
    /\ now = 1
    /\ requests = [s \in Slots |-> Idle]

NextGate ==
    \/ \E u \in UserIds : AuthChange(u)
    \/ RunEffect
    \/ \E l \in lookups : \E res \in LookupOutcomes(user_roles, l.user) :
           StoreRespond(l, res)
    \/ \E l \in lookups : ResumeLookup(l)
    \/ \E data \in IF loading THEN {<<>>} ELSE {} : AggFetch(data)

SpecGate == InitGate /\ [][NextGate]_vars

\* C15: the admin tab and AdminDashboard are rendered only while the role
\* resolver is not loading and reports admin, and admin is what a lookup for
\* the current identity resolves to.
C15_AdminOnlyForAdmin ==
    AdminTabShown =>
        /\ role = "admin"
        /\ ~roleLoading
        /\ "admin" \in {ResolveRole(res) : res \in LookupOutcomes(user_roles, user)}

\* C16: a listUsers() answer, formatted, has exactly one entry for every
\* profile of the store, with the profile's identifier, email, display name
\* and creation date and the identity's role, user when it has no role row.
C16_ListUsersComplete ==
    [][\A c \in AdminSlots :
          (AdminAnsweredNow(c) /\ adminCalls[c].kind = "profiles"
              /\ adminCalls'[c].phase = "ok") =>
              LET listed == FormatUsers(adminCalls'[c].res)
              IN  /\ Len(listed) = Cardinality(profiles)
                  /\ \A p \in profiles :
                        \E i \in 1..Len(listed) :
                            /\ listed[i].id = p.user_id
                            /\ listed[i].email = OrEmpty(p.email)
                            /\ listed[i].display_name = OrEmpty(p.display_name)
                            /\ listed[i].created_at = p.created_at
                            /\ listed[i].role =
                                   IF user_roles[p.user_id] = "norow" THEN "user"
                                   ELSE user_roles[p.user_id]]_vars

\* C17: a countRecords() answer is the number of rows of trading_records,
\* whoever owns them.
C17_CountAllRecords ==
    [][\A c \in AdminSlots :
          (AdminAnsweredNow(c) /\ adminCalls[c].kind = "count"
              /\ adminCalls'[c].phase = "ok") =>
              adminCalls'[c].res = Some(Cardinality(trading_records))]_vars

\* the code after the await of the call in slot s runs in this step
ContinuesNow(s) ==
    /\ Answered(s)
    /\ \/ requests'[s] = Idle
       \/ requests'[s].kind # requests[s].kind

\* C18 as stated: after every successful create, update and delete the list
\* is fetched again, and the mutation itself leaves the local list alone.
C18_RefetchAfterEveryMutation ==
    [][\A s \in Slots :
          (ContinuesNow(s) /\ requests[s].phase = "ok"
              /\ requests[s].kind \in {"insert", "update", "delete"}) =>
              /\ requests'[s] # Idle
              /\ requests'[s].kind = "select" /\ requests'[s].phase = "sent"
              /\ records' = records]_vars

\* C18 amended: after a successful create or update the list is fetched
\* again and the fetched list replaces the local one; a successful delete
\* makes no fetch and sets the local list to the list held when the delete
\* was started, without the deleted record.
C18_RefetchAfterSave ==
    [][\A s \in Slots :
          (ContinuesNow(s) /\ requests[s].phase = "ok") =>
              IF requests[s].kind \in {"insert", "update"}
              THEN /\ requests'[s] # Idle
                   /\ requests'[s].kind = "select" /\ requests'[s].phase = "sent"
                   /\ records' = records
              ELSE IF requests[s].kind = "delete"
              THEN /\ requests'[s] = Idle
                   /\ \A i \in 1..Len(records') : records'[i].id # requests[s].id
                   /\ records' = SelectSeq(requests[s].closure,
                                           LAMBDA r : r.id # requests[s].id)
              ELSE /\ requests'[s] = Idle
                   /\ records' = requests[s].res]_vars

\* a created record has come into the local list by the fetch after its
\* save, and a delete has then taken another record out of the list
C18_Witness ==
    /\ toast = "deleted"
    /\ \E i \in 1..Len(records) : records[i].created_at > 0
    /\ \A s \in Slots : requests[s] = Idle

\* ------------------------- an administrator using both tabs of the dashboard
\* the trading tab's buttons exist while that tab is shown; the form's modal
\* covers the tab triggers; this administrator waits for the running calls
\* before starting the next operation
TradingQuiet == \A s \in Slots : requests[s] = Idle

AdminQuiet == \A c \in AdminSlots : adminCalls[c] = NoCall

InitBoth ==
    /\ user = "u1"
    /\ user_roles = [u \in UserIds |-> IF u = "u1" THEN "admin" ELSE "norow"]
    /\ role = "admin"
    /\ roleLoading = FALSE
    /\ effectPending = FALSE
    /\ lookups = {}
    /\ nLookups = 1
    /\ trading_records = SeedRows
    /\ nextId = 2
    /\ now = 1
    /\ records \in SelectRecords(trading_records, user)
    /\ loading = FALSE
    /\ showForm = FALSE
    /\ editingRecord = None
    /\ formLoading = FALSE
    /\ toast = "none"
    /\ requests = [s \in Slots |-> Idle]
    /\ AdminInitial
    /\ AuthInitial

NextBoth ==
    \/ activeTab = "trading" /\ OpenCreateForm
    \/ activeTab = "trading" /\ \E i \in 1..MaxRecords : OpenEditForm(i)
    \/ TradingQuiet /\ AdminQuiet
          /\ \E fd \in IF editingRecord = None THEN {SeedForm}
                        ELSE EditInputs(editingRecord[1]) : HandleSubmit(fd)
    \/ activeTab = "trading" /\ TradingQuiet /\ AdminQuiet
          /\ \E i \in 1..MaxRecords : HandleDeleteRecord(i)
    \/ \E s \in Slots : StoreError(s)
    \/ \E s \in Slots : StoreSelect(s)
    \/ \E s \in Slots : StoreInsert(s)
    \/ \E s \in Slots : StoreUpdate(s)
    \/ \E s \in Slots : StoreDelete(s)
    \/ \E s \in Slots : FetchRecordsDone(s)
    \/ \E s \in Slots : DeleteRecordDone(s)
    \/ \E s \in Slots : SubmitDone(s)
    \/ ~showForm /\ TradingQuiet /\ AdminQuiet /\ OpenAdminTab
    \/ ~showForm /\ OpenTradingTab
    \/ ~showForm /\ TradingQuiet /\ AdminQuiet
          /\ \E u \in UserIds : \E r \in Roles : UpdateUserRole(u, r)
    \/ \E c \in AdminSlots : AdminStoreError(c)
    \/ \E c \in AdminSlots : StoreProfiles(c)
    \/ \E c \in AdminSlots : StoreCount(c)
    \/ \E c \in AdminSlots : StoreUpsert(c)
    \/ \E c \in AdminSlots : ProfilesDone(c)
    \/ \E c \in AdminSlots : CountDone(c)
    \/ \E c \in AdminSlots : UpsertDone(c)

SpecBoth == InitBoth /\ [][NextBoth]_vars

\* no store call is begun in this step
NoNewCall ==
    /\ \A s \in Slots :
          requests'[s] # Idle =>
              /\ requests[s] # Idle
              /\ requests'[s].kind = requests[s].kind
              /\ requests'[s].phase = requests[s].phase \/ requests[s].phase = "sent"
    /\ \A c \in AdminSlots :
          adminCalls'[c] # NoCall =>
              /\ adminCalls[c] # NoCall
              /\ adminCalls'[c].kind = adminCalls[c].kind
              /\ adminCalls'[c].phase = adminCalls[c].phase
                    \/ adminCalls[c].phase = "sent"

\* C19: when the store answers a create, update, delete or setRole with an
\* error, the handler's continuation starts no further store call (the
\* failed call is not sent again), leaves the local records, users and stats
\* and the store as they are, does not run the success path (the form stays
\* open with its record, no refetch is sent, nothing is patched), and raises
\* the failure notification of that operation.
C19_ErrorAbandons ==
    [][/\ \A s \in Slots :
             (ContinuesNow(s) /\ requests[s].phase = "error"
                 /\ requests[s].kind \in {"insert", "update", "delete"}) =>
                 /\ requests'[s] = Idle
                 /\ NoNewCall
                 /\ records' = records /\ users' = users /\ stats' = stats
                 /\ trading_records' = trading_records
                 /\ user_roles' = user_roles
                 /\ showForm' = showForm /\ editingRecord' = editingRecord
                 /\ toast' = IF requests[s].kind = "delete"
                             THEN "delete_error" ELSE "save_error"
       /\ \A c \in AdminSlots :
             (AdminAnswered(c) /\ adminCalls[c].kind = "upsert"
                 /\ adminCalls[c].phase = "error" /\ adminCalls'[c] = NoCall) =>
                 /\ NoNewCall
                 /\ records' = records /\ users' = users /\ stats' = stats
                 /\ trading_records' = trading_records
                 /\ user_roles' = user_roles
                 /\ toast' = "role_error"]_vars

\* a role change made from a loaded directory has failed and its failure
\* notification is up, with everything at rest and nothing lost
C19_Witness ==
    /\ toast = "role_error"
    /\ Len(users) > 0
    /\ TradingQuiet /\ AdminQuiet
    /\ Len(records) = 1
    /\ Cardinality(trading_records) = 1

\* row r holds the field values of the update payload
HoldsData(r, data) ==
    /\ r.trade_date = data.trade_date
    /\ r.stock_symbol = data.stock_symbol
    /\ r.stock_name = data.stock_name
    /\ r.transaction_type = data.transaction_type
    /\ r.quantity = data.quantity /\ r.price = data.price
    /\ r.commission = data.commission /\ r.tax = data.tax
    /\ r.notes = data.notes

\* C20: an update in flight can be applied whatever has happened to its
\* record since the form read it, also while another update of the same
\* record is in flight or has just been applied; and when the store applies
\* an update to a row of the caller, the row then holds exactly that update's
\* field values, so the row ends as the last applied update wrote it.
C20_LastWriterWins ==
    /\ [](\A s \in Slots :
            (requests[s] # Idle /\ requests[s].kind = "update"
                /\ requests[s].phase = "sent" /\ now < MaxClock) =>
                ENABLED StoreUpdate(s))
    /\ [][\A s \in Slots :
            (AnsweredNow(s) /\ requests[s].kind = "update"
                /\ requests'[s].phase = "ok") =>
                \A r \in trading_records :
                    (r.id = requests[s].id /\ r.user_id = requests[s].jwt) =>
                        \E w \in trading_records' :
                            /\ w.id = r.id
                            /\ HoldsData(w, requests[s].data)
                            /\ w.updated_at = now]_vars

\* two updates of one record with different field values, sent while both
\* were pending, have both been applied, and the row holds the values of one
\* of them
C20_Witness ==
    \E s \in Slots : \E u \in Slots :
        /\ s # u
        /\ requests[s] # Idle /\ requests[u] # Idle
        /\ requests[s].kind = "update" /\ requests[u].kind = "update"
        /\ requests[s].phase = "ok" /\ requests[u].phase = "ok"
        /\ requests[s].id = requests[u].id
        /\ requests[s].data # requests[u].data
        /\ \E r \in trading_records :
              /\ r.id = requests[s].id
              /\ HoldsData(r, requests[u].data)
              /\ ~HoldsData(r, requests[s].data)

\* C21: while the Admin Directory is shown and its load has completed,
\* totalUsers is the number of listed users, adminUsers is the number of
\* listed users whose role is admin, and activeUsers equals totalUsers; this
\* holds after the load and after every answered updateUserRole.
C21_StatsMatchUsers ==
    (AdminMounted /\ ~adminLoading) =>
        /\ stats.totalUsers = Len(users)
        /\ stats.adminUsers =
              Cardinality({i \in 1..Len(users) : users[i].role = "admin"})
        /\ stats.activeUsers = stats.totalUsers

\* a role change of a listed user has succeeded after the load: the list has
\* one user, no longer an admin, and the statistics say so
C21_Witness ==
    /\ AdminMounted /\ ~adminLoading
    /\ toast = "role_updated"
    /\ Len(users) = 1 /\ users[1].role = "user"
    /\ stats.totalUsers = 1 /\ stats.adminUsers = 0
    /\ \A c \in AdminSlots : adminCalls[c] = NoCall

\* ----------------------- the dashboard with a store that answers every call
\* one signed-in user, no other writer, no failing call: the fetch of the
\* mount and the delete buttons, two calls at most in flight
NextCalm ==
    \/ \E i \in 1..Cardinality(ListSeedRows) : HandleDeleteRecord(i)
    \/ \E s \in Slots : StoreSelect(s)
    \/ \E s \in Slots : StoreDelete(s)
    \/ \E s \in Slots : FetchRecordsDone(s)
    \/ \E s \in Slots : DeleteRecordDone(s)

SpecCalm == InitList /\ [][NextCalm]_vars

\* C22: whenever the dashboard is loaded and no fetch, save or delete is in
\* flight, the local list holds exactly the rows stored for the user, each
\* once: no deleted record is back in it and no stored record is missing.
C22_LocalMatchesStore ==
    (Rendered /\ \A s \in Slots : requests[s] = Idle) =>
        /\ {records[i] : i \in 1..Len(records)} = VisibleRows(trading_records, user)
        /\ Len(records) = Cardinality(VisibleRows(trading_records, user))

\* -------------------- the Admin Directory driven through its rows' selects
\* updateUserRole is called for listed users only
NextRows ==
    \/ OpenAdminTab
    \/ OpenTradingTab
    \/ \E i \in 1..Len(users) : \E r \in Roles : UpdateUserRole(users[i].id, r)
    \/ \E c \in AdminSlots : AdminStoreError(c)
    \/ \E c \in AdminSlots : StoreProfiles(c)
    \/ \E c \in AdminSlots : StoreCount(c)
    \/ \E c \in AdminSlots : StoreUpsert(c)
    \/ \E c \in AdminSlots : ProfilesDone(c)
    \/ \E c \in AdminSlots : CountDone(c)
    \/ \E c \in AdminSlots : UpsertDone(c)

SpecRows == InitAdmin /\ [][NextRows]_vars

\* the role the store holds for identity u, as the directory reads it
StoredRole(u) == IF user_roles[u] = "norow" THEN "user" ELSE user_roles[u]

\* C23: while the Admin Directory is shown and loaded and no updateUserRole
\* call is in flight, the role shown for each listed user is the role the
\* store holds for that user.
C23_ShownRoleIsStoredRole ==
    (/\ AdminMounted /\ ~adminLoading
     /\ \A c \in AdminSlots : adminCalls[c] = NoCall \/ adminCalls[c].kind # "upsert") =>
        \A i \in 1..Len(users) : users[i].role = StoredRole(users[i].id)

\* ================================================================= AuthPage
\* Index renders AuthPage while there is no user; both forms share `loading`
\* and their submit buttons are disabled while it is set
AuthKinds == {"signIn", "signUp"}

\* signIn / signUp of the identity provider: resolves with a session, resolves
\* with an error, or rejects
AuthOutcomes == {"ok", "error", "throw"}

\* handleSignIn / handleSignUp up to the await
HandleAuth(kind) ==
    /\ user = NoUser /\ ~authLoading
    /\ authCall = NoAuthCall
    /\ authLoading' = TRUE
    /\ authCall' = [kind |-> kind, phase |-> "sent"]
    /\ UNCHANGED <<roleVars, dashVars, storeVars, requests, adminVars>>

\* the identity provider answers
AuthRespond(res) ==
    /\ authCall.phase = "sent"
    /\ authCall' = [authCall EXCEPT !.phase = res]
    /\ UNCHANGED authLoading
    /\ UNCHANGED <<roleVars, dashVars, storeVars, requests, adminVars>>

\* handleSignIn / handleSignUp after the await: the toasts, then finally
AuthDone ==
    /\ authCall.phase \in AuthOutcomes
    /\ toast' = IF authCall.phase # "ok"
                THEN (IF authCall.kind = "signIn" THEN "signin_error"
                      ELSE "signup_error")
                ELSE IF authCall.kind = "signUp" THEN "signup_ok" ELSE toast
    /\ authLoading' = FALSE
    /\ authCall' = NoAuthCall
    /\ UNCHANGED <<records, loading, showForm, editingRecord, formLoading>>
    /\ UNCHANGED <<roleVars, storeVars, requests, adminVars>>

\* --------------------------------------------- every busy flag of the page
\* a signed-in user's dashboard has mounted (role lookup and first fetch not
\* yet made or answered); the identity changes, records are created through
\* the form, and sign-in and sign-up are used while signed out. The user
\* turns to another part of the page when the calls of the other parts have
\* returned; within one part calls overlap (an identity change supersedes a
\* lookup in flight, a form is cancelled and reopened while its save runs).
AuthQuiet == authCall = NoAuthCall

InitLive ==
    /\ user = "u1"
    /\ user_roles = [u \in UserIds |-> IF u = "u1" THEN "admin" ELSE "norow"]
    /\ InitHook
    /\ DashboardInitial
    /\ trading_records = SeedRows
    /\ nextId = 2
    /\ now = 1
    /\ requests = [s \in Slots |->
                     IF s = 1 THEN Request("select", user, 0, <<>>, <<>>) ELSE Idle]

\* the store answers the call of slot s, one way or another
StoreAnswers(s) == StoreError(s) \/ StoreSelect(s) \/ StoreInsert(s)

NextLive ==
    \/ TradingQuiet /\ AuthQuiet /\ \E u \in UserIds \cup {NoUser} : AuthChange(u)
    \/ RunEffect
    \/ \E l \in lookups : \E res \in LookupOutcomes(user_roles, l.user) :
           StoreRespond(l, res)
    \/ \E l \in lookups : ResumeLookup(l)
    \/ RoleQuiescent /\ AuthQuiet /\ OpenCreateForm
    \/ RoleQuiescent /\ AuthQuiet /\ CancelForm
    \/ RoleQuiescent /\ AuthQuiet /\ \E fd \in {SeedForm} : HandleSubmit(fd)
    \/ \E s \in Slots : StoreAnswers(s)
    \/ \E s \in Slots : FetchRecordsDone(s)
    \/ \E s \in Slots : SubmitDone(s)
    \/ RoleQuiescent /\ TradingQuiet /\ \E kind \in AuthKinds : HandleAuth(kind)
    \/ \E res \in AuthOutcomes : AuthRespond(res)
    \/ AuthDone

\* every call made is answered and every answer is taken up by the code that
\* awaits it; the effect of a render runs; nothing is assumed of the user
LiveFairness ==
    /\ WF_vars(RunEffect)
    /\ WF_vars(\E l \in lookups : \E res \in LookupOutcomes(user_roles, l.user) :
                   StoreRespond(l, res))
    /\ WF_vars(\E l \in lookups : ResumeLookup(l))
    /\ \A s \in Slots : WF_vars(StoreAnswers(s))
    /\ \A s \in Slots : WF_vars(FetchRecordsDone(s))
    /\ \A s \in Slots : WF_vars(SubmitDone(s))
    /\ WF_vars(\E res \in AuthOutcomes : AuthRespond(res))
    /\ WF_vars(AuthDone)

SpecLive == InitLive /\ [][NextLive]_vars /\ LiveFairness

\* C24: every busy flag that is set is cleared again: the Role Resolver's
\* loading flag (whatever identity changes happen, also one that supersedes a
\* lookup in flight), the dashboard's record-loading flag, the form's saving
\* flag and the sign-in / sign-up flag.
C24_FlagsReturn ==
    /\ roleLoading ~> ~roleLoading
    /\ loading ~> ~loading
    /\ formLoading ~> ~formLoading
    /\ authLoading ~> ~authLoading

\* all flags are clear after a second role lookup was started, a record was
\* saved through the form and a sign-in failed
C24_Witness ==
    /\ nLookups >= 2 /\ lookups = {}
    /\ ~roleLoading /\ ~loading /\ ~formLoading /\ ~authLoading
    /\ Cardinality(trading_records) = 2
    /\ toast = "signin_error"
    /\ authCall = NoAuthCall
    /\ \A s \in Slots : requests[s] = Idle

====
